---- MODULE Spec2Model ----
(***************************************************************************)
(* The host-side volume agent of volplugin: DaemonConfig.Daemon and the    *)
(* routines it drives (getGlobal, watchGlobal, updateMounts,               *)
(* configureRouter), together with the master, the storage driver, the     *)
(* kernel mount table and a second host that competes for the same leases. *)
(*                                                                         *)
(* Source: src/volplugin/volplugin.go (lines 1-275 are the agent, the rest *)
(* of that file are the system tests) and src/storage/driver.go.           *)
(* The RPC handlers (dc.mount, dc.unmount, dc.create, dc.getPath, ...),    *)
(* dc.requestVolume, dc.startRuntimePoll and the lock client are not in    *)
(* the source tree; they are modelled from spec.md sections 4.3-4.5.       *)
(*                                                                         *)
(* Spec runs the RPC handlers as single steps; RpcSpec runs the Mount RPC  *)
(* step by step in two request goroutines (spec.md sections 4.5.1 and 5).  *)
(***************************************************************************)
EXTENDS Integers, Sequences, FiniteSets, TLC

\* ------------------------------------------------------------------ bounds

\* Cap on the per-volume mount refcount the Mount RPC may reach.
MaxCount == 2

\* --------------------------------------------------------------- constants

\* dc.Host: the --host-label the agent was started with (TestVolpluginHostLabel).
Host == "quux"

\* The label of the second host of the cluster (mon1 in the system tests).
PeerHost == "mon1"

\* lock.Unlocked: the reserved holder of a lease on an unlocked volume.
Unlocked == "unlocked"

\* lock.ReasonMount
ReasonMount == "mount"

\* Volume names are strings, modelled as sequences of one-character strings.
VolT == <<"p", "/", "t">>

VolU == <<"p", "/", "u">>

\* A name of the right shape that the master does not know.
VolGone == <<"p", "/", "g">>

\* A name that is not policy/name.
BadName == <<"x">>

\* Names with one '/' and an empty policy, or an empty volume name.
NoPolicy == <<"/", "t">>

NoName == <<"p", "/">>

\* A name with more than one '/'.
TwoSlash == <<"p", "/", "t", "/", "x">>

Names == {VolT, VolU, VolGone, BadName, NoPolicy, NoName, TwoSlash}

\* Mounts found on the host that are not volumes of the master. Beside them a
\* host may start with a mount of VolU, a volume the backend already holds.
Foreign == {VolGone, BadName, NoPolicy, NoName, TwoSlash}

\* The names the container runtime passes in RPCs.
ReqNames == {VolT, VolU, BadName}

\* The master's volume table: policy, name and the unlocked flag.
MasterVolumes ==
    { [policy |-> <<"p">>, name |-> <<"t">>, Unlocked |-> FALSE],
      [policy |-> <<"p">>, name |-> <<"u">>, Unlocked |-> TRUE] }

\* A nil pointer; a non-nil pointer to x is <<x>>.
Nil == <<>>

\* ----------------------------------------------------------------- helpers

\* strings.Split(s, "/")
Split(s) ==
    LET F[i \in 0..Len(s)] ==
            IF i = 0 THEN << <<>> >>
            ELSE LET prev == F[i - 1] IN
                 IF s[i] = "/" THEN Append(prev, <<>>)
                 ELSE [prev EXCEPT ![Len(prev)] = Append(@, s[i])]
    IN F[Len(s)]

\* The order in which the driver's scan lists the host's mounts.
MountOrder == << BadName, NoPolicy, VolT, TwoSlash, VolGone, NoName, VolU >>

\* MountDriver.Mounted: the host's mounts of this system, in the scan's order.
Mounted(k) ==
    LET In(n) == n \in k IN SelectSeq(MountOrder, In)

\* make(chan struct{}): a channel distinct from every channel in use.
NewChan(used) ==
    CHOOSE n \in 1..(Cardinality(used) + 1) :
        n \notin used /\ \A k \in 1..(n - 1) : k \in used

\* ------------------------------------------------------------------ master

\* The master's answer to GET /volume/<policy>/<name>.
\* "ok" with the volume, errVolumeNotFound, or errVolumeResponse.
RequestVolume(up, policy, name) ==
    IF ~up THEN [err |-> "errVolumeResponse", vol |-> Nil]
    ELSE IF \E v \in MasterVolumes : v.policy = policy /\ v.name = name
         THEN [err |-> "", vol |-> << CHOOSE v \in MasterVolumes : v.policy = policy /\ v.name = name >>]
         ELSE [err |-> "errVolumeNotFound", vol |-> Nil]

\* ReportMount claims the lease: it succeeds iff the master is reachable and
\* records no use of that volume for that reason.
ReportMountOk(up, us, payload) ==
    up /\ ~\E u \in us : u.Volume = payload.Volume /\ u.Reason = payload.Reason

\* ReportMountStatus succeeds iff the recorded use is this very payload.
ReportMountStatusOk(up, us, payload) ==
    up /\ payload \in us

\* What ReportMount answers: "ok", "conflict" when the master holds a use of
\* the volume already, "unreachable" when the request does not get through.
ReportMountResult(up, us, payload) ==
    IF ~up THEN "unreachable"
    ELSE IF ReportMountOk(up, us, payload) THEN "ok" ELSE "conflict"

\* The use table after a successful ReportMount.
Published(us, payload) == us \cup {payload}

\* A master that keeps every use it is asked to release.
ReleasedNever(up, us, payload) == us

\* DELETE /mount: the use is removed if it is the payload's.
Released(up, us, payload) ==
    IF up THEN us \ {payload} ELSE us

\* ------------------------------------------------------------------- state

VARIABLES
    pc,                \* where Daemon is: "down", "poll", "updateMounts", "refresh", "listen", "serving"
    exit,              \* how the last run of the process ended ("none" while it runs)
    Global,            \* dc.Global: Nil or a pointer to the global config
    logDebug,          \* watchGlobal has set the Debug log level and errored's trace flags
    router,            \* the mux router Serve dispatches with: Nil or a pointer to it
    todo,              \* updateMounts: the mounts of the scan not yet refreshed
    mountCount,        \* dc.mountCount
    stopChans,         \* dc.Client's stop channels by volume name (0: no entry)
    heartbeats,        \* the running HeartbeatMount goroutines: payload and stop channel
    runtimeStopChans,  \* dc.runtimeStopChans by volume name (0: no entry)
    runtimePolls,      \* the running startRuntimePoll goroutines: volume and stop channel
    sockFile,          \* /run/docker/plugins/volplugin.sock exists
    kernel,            \* the host's kernel mounts, by volume name
    backend,           \* the volumes that exist on the storage backend
    masterUp,          \* the master answers
    masterGlobal,      \* the global config the master holds
    uses,              \* the master's use records (leases)
    peerHeld,          \* the volumes the second host has mounted and heartbeats
    updateMountsCalls, \* how many times this run of Daemon called updateMounts
    reconciled,        \* volumes updateMounts refreshed in this run, not finally unmounted since
    lapsed,            \* the reconciled volumes whose lease expired at the master since
    calls,             \* the Mount RPCs the two request goroutines are in, by goroutine
    turn               \* the calls the latest turn of updateMounts' loop made, until Daemon serves

vars ==
    << pc, exit, Global, logDebug, router, todo, mountCount, stopChans, heartbeats,
       runtimeStopChans, runtimePolls, sockFile, kernel, backend, masterUp, masterGlobal,
       uses, peerHeld, updateMountsCalls, reconciled, lapsed, calls, turn >>

\* The mount registry and the goroutines that hang off it.
mountVars == << mountCount, stopChans, heartbeats, runtimeStopChans, runtimePolls >>

\* The rest of the process memory.
daemonVars == << Global, logDebug, router, todo, updateMountsCalls, turn >>

\* Everything in the agent's process.
procVars == << daemonVars, mountVars, reconciled, lapsed, calls >>

\* The host and the backend outside the process.
hostVars == << sockFile, kernel, backend >>

\* The master and the second host.
clusterVars == << masterUp, masterGlobal, uses, peerHeld >>

\* The goroutines net/http runs two requests of the container runtime in.
Slots == {"a", "b"}

\* A request goroutine that serves no Mount.
IdleCall ==
    [name |-> <<>>, step |-> "idle", prior |-> 0, first |-> FALSE, waited |-> FALSE,
     held |-> FALSE, claimed |-> FALSE, drove |-> FALSE, err |-> "", mountpoint |-> <<>>]

\* No turn of updateMounts' loop has run.
NoTurn == [name |-> <<>>, lookup |-> "none", report |-> "none", status |-> "none"]

\* config.NewGlobalConfig() filled from the master's JSON.
GlobalConfigs == [Debug : BOOLEAN]

\* NewDaemonConfig: empty maps, no Global, no Client state.
NewDaemonConfig ==
    /\ Global' = Nil
    /\ logDebug' = FALSE
    /\ router' = Nil
    /\ todo' = <<>>
    /\ mountCount' = [n \in Names |-> 0]
    /\ stopChans' = [n \in Names |-> 0]
    /\ heartbeats' = {}
    /\ runtimeStopChans' = [n \in Names |-> 0]
    /\ runtimePolls' = {}
    /\ updateMountsCalls' = 0
    /\ reconciled' = {}
    /\ lapsed' = {}
    /\ calls' = [c \in Slots |-> IdleCall]
    /\ turn' = NoTurn

Init ==
    /\ pc = "down"
    /\ exit = "none"
    /\ Global = Nil
    /\ logDebug = FALSE
    /\ router = Nil
    /\ todo = <<>>
    /\ mountCount = [n \in Names |-> 0]
    /\ stopChans = [n \in Names |-> 0]
    /\ heartbeats = {}
    /\ runtimeStopChans = [n \in Names |-> 0]
    /\ runtimePolls = {}
    /\ sockFile = FALSE
    /\ kernel \in {{}, Foreign, Foreign \cup {VolU}}
    /\ backend = {VolU}
    /\ masterUp \in BOOLEAN
    /\ masterGlobal \in GlobalConfigs
    /\ uses = {}
    /\ peerHeld = {}
    /\ updateMountsCalls = 0
    /\ reconciled = {}
    /\ lapsed = {}
    /\ calls = [c \in Slots |-> IdleCall]
    /\ turn = NoTurn

\* The process ends: its memory and goroutines are gone; the kernel mounts,
\* the socket file and the master's records stay.
ProcessEnds(cause) ==
    /\ pc' = "down"
    /\ exit' = cause
    /\ NewDaemonConfig

\* ------------------------------------------------------------- environment

\* startVolmaster
MasterStart ==
    /\ ~masterUp
    /\ masterUp' = TRUE
    /\ UNCHANGED << pc, exit, procVars, hostVars, masterGlobal, uses, peerHeld >>

\* stopVolmaster
MasterStop ==
    /\ masterUp
    /\ masterUp' = FALSE
    /\ UNCHANGED << pc, exit, procVars, hostVars, masterGlobal, uses, peerHeld >>

\* uploadGlobal: the operator replaces the global config at the master.
UploadGlobal ==
    /\ masterUp
    /\ \E g \in GlobalConfigs : g # masterGlobal /\ masterGlobal' = g
    /\ UNCHANGED << pc, exit, procVars, hostVars, masterUp, uses, peerHeld >>

\* startVolplugin: a new process enters Daemon with a fresh DaemonConfig.
Start ==
    /\ pc = "down"
    /\ pc' = "poll"
    /\ exit' = "none"
    /\ NewDaemonConfig
    /\ UNCHANGED << hostVars, clusterVars >>

\* stopVolplugin, or a kill: the process ends with no cleanup at all.
Crash ==
    /\ pc # "down"
    /\ ProcessEnds("killed")
    /\ UNCHANGED << hostVars, clusterVars >>

\* ------------------------------------------------------------ Daemon: startup

\* What the master's /global answers: a decodable config, a body that cannot
\* be read or decoded, or no answer at all.
GlobalResponses(up) == IF up THEN {"ok", "garbled"} ELSE {"refused"}

\* A getGlobal that clears dc.Global when the poll fails.
GetGlobalClearsOnError(g, resp, mg) == IF resp = "ok" THEN << mg >> ELSE Nil

\* getGlobal: dc.Global is assigned only when request, read and decode succeed.
GetGlobal(g, resp, mg) == IF resp = "ok" THEN << mg >> ELSE g

\* A loop that leaves after its first poll, whatever it got.
LoopExitAlways(g) == TRUE

\* A loop that never leaves.
LoopExitNever(g) == FALSE

\* Daemon's startup loop leaves when dc.Global != nil.
LoopExit(g) == g # Nil

\* A Daemon that goes straight to the socket.
DaemonSkipsUpdateMounts == "listen"

\* What Daemon does after the startup loop: it calls updateMounts.
DaemonAfterLoop == "updateMounts"

\* One turn of Daemon's startup loop: getGlobal, then break or log and sleep.
DaemonPoll ==
    /\ pc = "poll"
    /\ \E resp \in GlobalResponses(masterUp) :
         LET g == GetGlobal(Global, resp, masterGlobal) IN
         /\ Global' = g
         /\ pc' = IF LoopExit(g) THEN DaemonAfterLoop ELSE "poll"
    /\ UNCHANGED << exit, calls, turn, logDebug, router, todo, updateMountsCalls, mountVars, reconciled,
                    lapsed, hostVars, clusterVars >>

\* A payload that names this host whatever the volume's unlocked flag.
UseMountIgnoresUnlocked(name, vol) ==
    [Volume |-> name, Reason |-> ReasonMount, Hostname |-> Host]

\* The UseMount payload updateMounts builds for a refreshed mount.
UseMount(name, vol) ==
    [Volume |-> name, Reason |-> ReasonMount,
     Hostname |-> IF vol.Unlocked THEN Unlocked ELSE Host]

\* An updateMounts that goes on whatever the two calls return.
RefreshPublishedAlways(report, statusOk) == TRUE

\* updateMounts goes on with a mount iff ReportMount, or else ReportMountStatus, succeeded.
RefreshPublished(report, statusOk) == report = "ok" \/ statusOk

\* An updateMounts that looks up every name of the scan.
NameSkippedNever(parts) == FALSE

\* updateMounts skips a name that does not split into two parts at "/".
NameSkipped(parts) == Len(parts) # 2

\* An updateMounts that goes on with a mount whatever requestVolume returned.
RefreshLookupGoesOn(err) == "refresh"

\* updateMounts' switch on requestVolume's error: errVolumeNotFound skips the
\* mount, errVolumeResponse is fatal, anything else goes on to the payload.
RefreshLookup(err) ==
    CASE err = "errVolumeNotFound" -> "skip"
      [] err = "errVolumeResponse" -> "fatal"
      [] OTHER -> "refresh"

\* An updateMounts that asks for the status after every ReportMount.
StatusFallbackAlways(report) == TRUE

\* updateMounts calls ReportMountStatus whenever ReportMount returned an error.
StatusFallback(report) == report # "ok"

\* An updateMounts that has the driver unmount the mount it looked at.
RefreshedMountsDropped(k, name) == k \ {name}

\* The host's mounts after a turn of updateMounts' loop: the loop body calls
\* no method of the driver, the mounts stay as Mounted listed them.
RefreshedMounts(k, name) == k

\* A request of updateMounts may fail to reach a master that is up.
Reach(up) == IF up THEN {TRUE, FALSE} ELSE {FALSE}

\* The channels the lock client has handed out that are still in use.
ClientChans == {stopChans[n] : n \in Names} \cup {h.ch : h \in heartbeats}

RuntimeChans == {runtimeStopChans[n] : n \in Names} \cup {r.ch : r \in runtimePolls}

\* go dc.startRuntimePoll(name, mount): registers a stop channel and polls until it is closed.
StartRuntimePoll(name) ==
    LET ch == NewChan(RuntimeChans) IN
    /\ runtimeStopChans' = [runtimeStopChans EXCEPT ![name] = ch]
    /\ runtimePolls' = runtimePolls \cup {[vol |-> name, ch |-> ch]}

\* go dc.Client.HeartbeatMount(ttl, payload, dc.Client.AddStopChan(name))
StartHeartbeat(name, payload) ==
    LET ch == NewChan(ClientChans) IN
    /\ stopChans' = [stopChans EXCEPT ![name] = ch]
    /\ heartbeats' = heartbeats \cup {[payload |-> payload, ch |-> ch]}

\* updateMounts up to its loop: the driver is built with dc.Global.MountPath
\* (a nil dereference, so a panic, on a nil Global) and Mounted is called.
UpdateMountsBegin ==
    /\ pc = "updateMounts"
    /\ IF Global = Nil
       THEN ProcessEnds("panic")
       ELSE \/ \* NewMountDriver or Mounted fails: updateMounts and Daemon return the error
               ProcessEnds("error")
            \/ /\ todo' = Mounted(kernel)
               /\ pc' = IF Mounted(kernel) = <<>> THEN "listen" ELSE "refresh"
               /\ updateMountsCalls' = updateMountsCalls + 1
               /\ UNCHANGED << exit, calls, turn, Global, logDebug, router, mountVars, reconciled, lapsed >>
    /\ UNCHANGED << hostVars, clusterVars >>

\* One turn of updateMounts' loop over the mounts, for the mount at the head of todo.
UpdateMountsStep ==
    /\ pc = "refresh"
    /\ todo # <<>>
    /\ LET name == Head(todo)
           rest == Tail(todo)
           parts == Split(name)
           next == IF rest = <<>> THEN "listen" ELSE "refresh"
       IN
       IF NameSkipped(parts)
       THEN \* invalid name: warned and skipped
            /\ todo' = rest
            /\ pc' = next
            /\ turn' = [NoTurn EXCEPT !.name = name]
            /\ UNCHANGED << exit, calls, Global, logDebug, router, updateMountsCalls, mountVars,
                            reconciled, lapsed, uses >>
       ELSE \E up1 \in Reach(masterUp), up2 \in Reach(masterUp), up3 \in Reach(masterUp) :
            LET rv == RequestVolume(up1, parts[1], parts[2])
                looked == [NoTurn EXCEPT !.name = name,
                                         !.lookup = IF rv.err = "" THEN "ok" ELSE rv.err]
            IN
            IF RefreshLookup(rv.err) = "skip"
            THEN /\ todo' = rest
                 /\ pc' = next
                 /\ turn' = looked
                 /\ UNCHANGED << exit, calls, Global, logDebug, router, updateMountsCalls,
                                 mountVars, reconciled, lapsed, uses >>
            ELSE IF RefreshLookup(rv.err) = "fatal"
            THEN \* log.Fatalf
                 /\ ProcessEnds("fatal")
                 /\ UNCHANGED uses
            ELSE IF rv.vol = Nil
            THEN \* vol.Unlocked through a nil vol
                 /\ ProcessEnds("panic")
                 /\ UNCHANGED uses
            ELSE LET payload == UseMount(name, rv.vol[1])
                     report == ReportMountResult(up2, uses, payload)
                     asked == StatusFallback(report)
                     statusOk == asked /\ ReportMountStatusOk(up3, uses, payload)
                 IN
                 IF ~RefreshPublished(report, statusOk)
                 THEN \* return err: ReportMountStatus' error, which Daemon returns
                      /\ ProcessEnds("lease")
                      /\ UNCHANGED uses
                 ELSE /\ uses' = IF report = "ok" THEN Published(uses, payload) ELSE uses
                      /\ StartRuntimePoll(name)
                      /\ StartHeartbeat(name, payload)
                      /\ reconciled' = reconciled \cup {name}
                      /\ lapsed' = lapsed \ {name}
                      /\ todo' = rest
                      /\ pc' = next
                      /\ turn' = [looked EXCEPT
                                    !.report = report,
                                    !.status = IF ~asked THEN "none"
                                               ELSE IF statusOk THEN "ok" ELSE "failed"]
                      /\ UNCHANGED << exit, calls, Global, logDebug, router, updateMountsCalls,
                                      mountCount >>
    /\ kernel' = RefreshedMounts(kernel, Head(todo))
    /\ UNCHANGED << sockFile, backend, masterUp, masterGlobal, peerHeld >>

\* One turn of watchGlobal, started by Daemon after updateMounts: sleep,
\* getGlobal, and with Debug set raise the log level and errored's flags.
\* Reading Debug through a nil Global is a nil dereference: the process panics.
WatchGlobal ==
    /\ pc \in {"listen", "serving"}
    /\ \E resp \in GlobalResponses(masterUp) :
         LET g == GetGlobal(Global, resp, masterGlobal) IN
         IF g = Nil
         THEN ProcessEnds("panic")
         ELSE /\ Global' = g
              /\ logDebug' = (logDebug \/ g[1].Debug)
              /\ UNCHANGED << pc, exit, calls, turn, router, todo, updateMountsCalls, mountVars,
                              reconciled, lapsed >>
    /\ UNCHANGED << hostVars, clusterVars >>

\* A route map that hands Remove to the unmount handler.
RouteMapRemoveUnmounts ==
    [p \in {"/Plugin.Activate", "/Plugin.Deactivate", "/VolumeDriver.Create",
            "/VolumeDriver.Remove", "/VolumeDriver.List", "/VolumeDriver.Get",
            "/VolumeDriver.Path", "/VolumeDriver.Mount", "/VolumeDriver.Unmount"} |->
        CASE p = "/Plugin.Activate" -> "activate"
          [] p = "/Plugin.Deactivate" -> "nilAction"
          [] p = "/VolumeDriver.Create" -> "create"
          [] p = "/VolumeDriver.Remove" -> "unmount"
          [] p = "/VolumeDriver.List" -> "list"
          [] p = "/VolumeDriver.Get" -> "get"
          [] p = "/VolumeDriver.Path" -> "getPath"
          [] p = "/VolumeDriver.Mount" -> "mount"
          [] p = "/VolumeDriver.Unmount" -> "unmount"]

\* routeMap of configureRouter
RouteMap ==
    [p \in {"/Plugin.Activate", "/Plugin.Deactivate", "/VolumeDriver.Create",
            "/VolumeDriver.Remove", "/VolumeDriver.List", "/VolumeDriver.Get",
            "/VolumeDriver.Path", "/VolumeDriver.Mount", "/VolumeDriver.Unmount"} |->
        CASE p = "/Plugin.Activate" -> "activate"
          [] p = "/Plugin.Deactivate" -> "nilAction"
          [] p = "/VolumeDriver.Create" -> "create"
          [] p = "/VolumeDriver.Remove" -> "getPath"
          [] p = "/VolumeDriver.List" -> "list"
          [] p = "/VolumeDriver.Get" -> "get"
          [] p = "/VolumeDriver.Path" -> "getPath"
          [] p = "/VolumeDriver.Mount" -> "mount"
          [] p = "/VolumeDriver.Unmount" -> "unmount"]

\* configureRouter: the routes of routeMap, each wrapped by logHandler with the
\* Debug flag of the config at hand, and the catch-all route iff that flag is set.
ConfigureRouter(g) ==
    [routes |-> RouteMap, logBodies |-> g.Debug, catchAll |-> g.Debug]

\* The handler the router gives a POST to path: a route of routeMap, else the
\* catch-all if it was registered, else mux's 404.
Dispatch(r, path) ==
    IF path \in DOMAIN r.routes THEN r.routes[path]
    ELSE IF r.catchAll THEN "action" ELSE "notFound"

\* Daemon from the removal of a stale socket to the router handed to the server.
DaemonListen ==
    /\ pc = "listen"
    /\ \/ \* the socket is bound; configureRouter reads dc.Global.Debug and
          \* panics on a nil Global
          /\ sockFile' = TRUE
          /\ IF Global = Nil
             THEN ProcessEnds("panic")
             ELSE /\ router' = << ConfigureRouter(Global[1]) >>
                  /\ pc' = "serving"
                  /\ turn' = NoTurn
                  /\ UNCHANGED << exit, calls, Global, logDebug, todo, updateMountsCalls,
                                  mountVars, reconciled, lapsed >>
       \/ \* os.Remove fails on an existing file: return err
          /\ sockFile
          /\ ProcessEnds("error")
          /\ UNCHANGED sockFile
       \/ \* MkdirAll or ListenUnix fails after the removal: return err
          /\ ProcessEnds("error")
          /\ sockFile' = FALSE
    /\ UNCHANGED << kernel, backend, clusterVars >>

\* srv.Serve returns an error (it never returns without one): log.Fatalf ends the process.
ServeFails ==
    /\ pc = "serving"
    /\ ProcessEnds("serve")
    /\ UNCHANGED << hostVars, clusterVars >>

\* The lines after Serve, were it to return nil: l.Close() and os.Remove(driverPath).
ServeReturnsNil ==
    /\ pc = "serving"
    /\ ProcessEnds("clean")
    /\ sockFile' = FALSE
    /\ UNCHANGED << kernel, backend, clusterVars >>

\* ------------------------------------------------------- plugin RPC handlers

\* A verb the agent has no route for.
UnknownPath == "/VolumeDriver.Capabilities"

\* The paths the container runtime posts to.
Paths == DOMAIN RouteMap \cup {UnknownPath}

\* Serve hands a POST to path to the handler the router dispatches it to.
Routed(path, handler) ==
    /\ pc = "serving"
    /\ Dispatch(router[1], path) = handler

\* policy "/" name, both segments non-empty
ValidName(name) ==
    LET parts == Split(name) IN
    Len(parts) = 2 /\ parts[1] # <<>> /\ parts[2] # <<>>

\* The lease the Mount protocol builds (step 4a).
MountLease(holder, name, vol) ==
    [Volume |-> name, Reason |-> ReasonMount,
     Hostname |-> IF vol.Unlocked THEN Unlocked ELSE holder]

\* The driver methods each handler may call.
DriverCallsOf ==
    [activate |-> {}, nilAction |-> {}, list |-> {}, get |-> {"MountPath"},
     getPath |-> {"MountPath"}, action |-> {}, notFound |-> {},
     create |-> {"Exists", "Create", "Format"}, mount |-> {"Mount", "MountPath"},
     unmount |-> {"Unmount"}]

\* The handlers that change nothing: activate, nilAction, list, get, getPath
\* (Path and Remove), the diagnostic echo and mux's 404.
ReadOnlyHandlers ==
    {"activate", "nilAction", "list", "get", "getPath", "action", "notFound"}

ServeReadOnly ==
    /\ \E path \in Paths, handler \in ReadOnlyHandlers : Routed(path, handler)
    /\ UNCHANGED vars

\* Create: the volume is looked up at the master and created and formatted
\* on the backend unless the driver says it exists.
ServeCreate ==
    /\ \E path \in Paths, name \in ReqNames :
         /\ Routed(path, "create")
         /\ LET parts == Split(name)
                rv == RequestVolume(masterUp, parts[1], parts[2])
            IN
            IF ~ValidName(name) \/ rv.err # "" \/ name \in backend
            THEN UNCHANGED backend
            ELSE backend' = backend \cup {name}
    /\ UNCHANGED << pc, exit, procVars, sockFile, kernel, clusterVars >>

\* The driver's Mount: a volume already mounted is returned as it is, a
\* volume of the backend mounts unless the backend fails, anything else fails.
DriverMountOutcomes(name) ==
    IF name \in kernel THEN {TRUE}
    ELSE IF name \in backend THEN {TRUE, FALSE}
    ELSE {FALSE}

\* Mount protocol, steps 1-5.
ServeMount ==
    /\ \E path \in Paths, name \in ReqNames :
         /\ Routed(path, "mount")
         /\ LET parts == Split(name)
                rv == RequestVolume(masterUp, parts[1], parts[2])
            IN
            IF ~ValidName(name) \/ rv.err # ""
            THEN \* InvalidName, VolumeNotFound, MasterUnreachable
                 UNCHANGED << mountVars, kernel, uses, lapsed >>
            ELSE IF mountCount[name] > 0
            THEN \* not the first holder: the refcount only
                 /\ mountCount[name] < MaxCount
                 /\ mountCount' = [mountCount EXCEPT ![name] = @ + 1]
                 /\ UNCHANGED << stopChans, heartbeats, runtimeStopChans, runtimePolls,
                                 kernel, uses, lapsed >>
            ELSE LET payload == MountLease(Host, name, rv.vol[1])
                     claimed == ReportMountOk(masterUp, uses, payload)
                     leased == IF claimed THEN Published(uses, payload) ELSE uses
                 IN
                 IF ~claimed /\ ~ReportMountStatusOk(masterUp, uses, payload)
                 THEN \* LeaseConflict: the refcount is taken back
                      UNCHANGED << mountVars, kernel, uses, lapsed >>
                 ELSE \E mounted \in DriverMountOutcomes(name) :
                        IF mounted
                        THEN /\ kernel' = kernel \cup {name}
                             /\ uses' = leased
                             /\ lapsed' = lapsed \ {name}
                             /\ mountCount' = [mountCount EXCEPT ![name] = 1]
                             /\ StartHeartbeat(name, payload)
                             /\ StartRuntimePoll(name)
                        ELSE \* the lease is released, the refcount taken back
                             /\ uses' = Released(masterUp, leased, payload)
                             /\ UNCHANGED << mountVars, kernel, lapsed >>
    /\ UNCHANGED << pc, exit, calls, turn, daemonVars, reconciled, sockFile, backend, masterUp,
                    masterGlobal, peerHeld >>

\* Unmount protocol, steps 1-3. A refcount already at zero stays there
\* (logged), and the cleanup of the last holder runs.
ServeUnmount ==
    /\ \E path \in Paths, name \in ReqNames :
         /\ Routed(path, "unmount")
         /\ LET parts == Split(name)
                rv == RequestVolume(masterUp, parts[1], parts[2])
                count == IF mountCount[name] > 0 THEN mountCount[name] - 1 ELSE 0
            IN
            IF ~ValidName(name)
            THEN UNCHANGED << mountVars, kernel, uses, reconciled, lapsed >>
            ELSE IF count > 0
            THEN /\ mountCount' = [mountCount EXCEPT ![name] = count]
                 /\ UNCHANGED << stopChans, heartbeats, runtimeStopChans, runtimePolls,
                                 kernel, uses, reconciled, lapsed >>
            ELSE /\ mountCount' = [mountCount EXCEPT ![name] = 0]
                 /\ heartbeats' = {h \in heartbeats : h.ch # stopChans[name]}
                 /\ stopChans' = [stopChans EXCEPT ![name] = 0]
                 /\ runtimePolls' = {r \in runtimePolls : r.ch # runtimeStopChans[name]}
                 /\ runtimeStopChans' = [runtimeStopChans EXCEPT ![name] = 0]
                 /\ kernel' = kernel \ {name}
                 /\ uses' = IF rv.err = ""
                            THEN Released(masterUp, uses, MountLease(Host, name, rv.vol[1]))
                            ELSE uses
                 /\ reconciled' = reconciled \ {name}
                 /\ lapsed' = lapsed \ {name}
    /\ UNCHANGED << pc, exit, calls, turn, daemonVars, sockFile, backend, masterUp, masterGlobal,
                    peerHeld >>

\* ------------------------------------------- Mount RPCs in two goroutines

\* The names the container runtime mounts from two containers at once.
SharedNames == {VolT, BadName}

\* MountDriver.MountPath: the mountpoint of a volume, policy.name under the
\* mount root.
MountPath(name) ==
    << "/" >> \o [i \in 1..Len(name) |-> IF name[i] = "/" THEN "." ELSE name[i]]

\* The volume the master resolved a known name to.
VolumeOf(name) ==
    CHOOSE v \in MasterVolumes : Split(name) = << v.policy, v.name >>

\* The steps between AcquireMount and the response.
InFlightSteps == {"claim", "driver", "barrier"}

InFlight(c) == calls[c].step \in InFlightSteps

\* The response that ends a Mount.
Responded(call, err) ==
    [call EXCEPT !.step = "done", !.err = err,
                 !.mountpoint = IF err = "" THEN MountPath(call.name) ELSE <<>>]

\* An AcquireMount under which every caller is the first holder.
FirstHolderAlways(prior) == TRUE

\* AcquireMount: firstHolder iff the prior count was zero.
FirstHolder(prior) == prior = 0

\* Mount protocol, steps 1-3: parse, resolve, and AcquireMount under the
\* mount mutex. A first holder goes on to the lease, any other caller to the
\* barrier of the mount in flight.
MountAcquire(c) ==
    /\ Routed("/VolumeDriver.Mount", "mount")
    /\ ~InFlight(c)
    /\ \E name \in SharedNames :
         LET parts == Split(name)
             rv == RequestVolume(masterUp, parts[1], parts[2])
             prior == mountCount[name]
             call == [IdleCall EXCEPT !.name = name]
         IN
         IF ~ValidName(name) \/ rv.err # ""
         THEN /\ calls' = [calls EXCEPT ![c] =
                     Responded(call, IF ValidName(name) THEN rv.err ELSE "InvalidName")]
              /\ UNCHANGED mountCount
         ELSE /\ prior < MaxCount
              /\ mountCount' = [mountCount EXCEPT ![name] = prior + 1]
              /\ calls' = [calls EXCEPT ![c] =
                     [call EXCEPT !.prior = prior,
                                  !.first = FirstHolder(prior),
                                  !.waited = \E d \in Slots \ {c} :
                                                 /\ calls[d].name = name
                                                 /\ calls[d].step \in {"claim", "driver"},
                                  !.held = MountLease(Host, name, rv.vol[1]) \in uses,
                                  !.step = IF FirstHolder(prior) THEN "claim" ELSE "barrier"]]
    /\ UNCHANGED << pc, exit, daemonVars, stopChans, heartbeats, runtimeStopChans,
                    runtimePolls, reconciled, lapsed, hostVars, clusterVars >>

\* Step 3, not the first holder: the existing mountpoint is returned once no
\* first holder's mount of the volume is in flight.
MountBarrier(c) ==
    /\ calls[c].step = "barrier"
    /\ ~\E d \in Slots \ {c} :
          calls[d].name = calls[c].name /\ calls[d].step \in {"claim", "driver"}
    /\ calls' = [calls EXCEPT ![c] = Responded(@, "")]
    /\ UNCHANGED << pc, exit, daemonVars, mountVars, reconciled, lapsed, hostVars,
                    clusterVars >>

\* Steps 4a-4b: the lease is claimed with ReportMount, then with
\* ReportMountStatus; when both fail the refcount is taken back.
MountClaim(c) ==
    /\ calls[c].step = "claim"
    /\ LET name == calls[c].name
           payload == MountLease(Host, name, VolumeOf(name))
           sent == [calls[c] EXCEPT !.claimed = TRUE]
       IN
       IF ReportMountOk(masterUp, uses, payload)
       THEN /\ uses' = Published(uses, payload)
            /\ calls' = [calls EXCEPT ![c] = [sent EXCEPT !.step = "driver"]]
            /\ UNCHANGED mountCount
       ELSE IF ReportMountStatusOk(masterUp, uses, payload)
       THEN /\ calls' = [calls EXCEPT ![c] = [sent EXCEPT !.step = "driver"]]
            /\ UNCHANGED << mountCount, uses >>
       ELSE /\ mountCount' = [mountCount EXCEPT ![name] = @ - 1]
            /\ calls' = [calls EXCEPT ![c] = Responded(sent, "LeaseConflict")]
            /\ UNCHANGED uses
    /\ UNCHANGED << pc, exit, daemonVars, stopChans, heartbeats, runtimeStopChans,
                    runtimePolls, reconciled, lapsed, hostVars, masterUp, masterGlobal,
                    peerHeld >>

\* Steps 4c-5: the driver mounts and the heartbeat and the runtime poller
\* are started; on the driver's error the lease is released and the refcount
\* taken back.
MountDriver(c) ==
    /\ calls[c].step = "driver"
    /\ LET name == calls[c].name
           payload == MountLease(Host, name, VolumeOf(name))
           drove == [calls[c] EXCEPT !.drove = TRUE]
       IN
       \E mounted \in DriverMountOutcomes(name) :
          IF mounted
          THEN /\ kernel' = kernel \cup {name}
               /\ lapsed' = lapsed \ {name}
               /\ StartHeartbeat(name, payload)
               /\ StartRuntimePoll(name)
               /\ calls' = [calls EXCEPT ![c] = Responded(drove, "")]
               /\ UNCHANGED << mountCount, uses >>
          ELSE /\ uses' = Released(masterUp, uses, payload)
               /\ mountCount' = [mountCount EXCEPT ![name] = @ - 1]
               /\ calls' = [calls EXCEPT ![c] = Responded(drove, "driver")]
               /\ UNCHANGED << stopChans, heartbeats, runtimeStopChans, runtimePolls,
                               kernel, lapsed >>
    /\ UNCHANGED << pc, exit, daemonVars, reconciled, sockFile, backend, masterUp,
                    masterGlobal, peerHeld >>

\* Unmount while no Mount is in flight: the container runtime stops a
\* container only once its start has returned.
UnmountBetweenMounts ==
    /\ \A c \in Slots : ~InFlight(c)
    /\ ServeUnmount

\* ------------------------------------------------------- second host, leases

\* The volumes the second host's containers use.
PeerNames == {VolT}

\* The second host's agent mounts a volume: the same lease protocol under
\* its own label. Its Mount fails when the lookup or both lease calls fail.
PeerMountFails(name) ==
    LET parts == Split(name)
        rv == RequestVolume(masterUp, parts[1], parts[2])
    IN
    \/ rv.err # ""
    \/ LET payload == MountLease(PeerHost, name, rv.vol[1]) IN
       ~ReportMountOk(masterUp, uses, payload) /\ ~ReportMountStatusOk(masterUp, uses, payload)

PeerMount ==
    /\ \E name \in PeerNames :
         /\ name \notin peerHeld
         /\ ~PeerMountFails(name)
         /\ LET rv == RequestVolume(masterUp, Split(name)[1], Split(name)[2])
                payload == MountLease(PeerHost, name, rv.vol[1])
            IN uses' = IF ReportMountOk(masterUp, uses, payload)
                       THEN Published(uses, payload) ELSE uses
         /\ peerHeld' = peerHeld \cup {name}
    /\ UNCHANGED << pc, exit, procVars, hostVars, masterUp, masterGlobal >>

PeerUnmount ==
    /\ \E name \in peerHeld :
         /\ peerHeld' = peerHeld \ {name}
         /\ uses' = Released(masterUp, uses,
                             MountLease(PeerHost, name,
                                        RequestVolume(TRUE, Split(name)[1], Split(name)[2]).vol[1]))
    /\ UNCHANGED << pc, exit, procVars, hostVars, masterUp, masterGlobal >>

\* A use record is kept alive by a heartbeat that reaches the master.
Refreshed(u) ==
    /\ masterUp
    /\ \/ \E h \in heartbeats : h.payload = u
       \/ u.Volume \in peerHeld /\ u.Hostname \in {PeerHost, Unlocked}

\* A use record nobody refreshes within the TTL expires.
ExpireLease ==
    /\ \E u \in uses :
         /\ ~Refreshed(u)
         /\ uses' = uses \ {u}
         /\ lapsed' = IF u.Hostname = Host /\ u.Volume \in reconciled
                      THEN lapsed \cup {u.Volume} ELSE lapsed
    /\ UNCHANGED << pc, exit, calls, turn, daemonVars, mountVars, reconciled, hostVars, masterUp,
                    masterGlobal, peerHeld >>

\* ----------------------------------------------------------- specification

Next ==
    \/ MasterStart
    \/ MasterStop
    \/ UploadGlobal
    \/ Start
    \/ Crash
    \/ DaemonPoll
    \/ UpdateMountsBegin
    \/ UpdateMountsStep
    \/ WatchGlobal
    \/ DaemonListen
    \/ ServeFails
    \/ ServeReturnsNil
    \/ ServeReadOnly
    \/ ServeCreate
    \/ ServeMount
    \/ ServeUnmount
    \/ PeerMount
    \/ PeerUnmount
    \/ ExpireLease

Spec == Init /\ [][Next]_vars

\* Daemon's own goroutine keeps running: each of its steps is taken once it
\* stays possible. Nothing is assumed of the master, the runtime or the peer.
LiveSpec ==
    /\ Spec
    /\ WF_vars(DaemonPoll)
    /\ WF_vars(UpdateMountsBegin)
    /\ WF_vars(UpdateMountsStep)
    /\ WF_vars(DaemonListen)

\* The agent with two request goroutines serving Mount step by step, on a
\* host whose backend holds policy1/test; a mount of it may have survived an
\* agent that was down for longer than the lease's TTL.
RpcInit ==
    /\ pc = "down"
    /\ exit = "none"
    /\ Global = Nil
    /\ logDebug = FALSE
    /\ router = Nil
    /\ todo = <<>>
    /\ mountCount = [n \in Names |-> 0]
    /\ stopChans = [n \in Names |-> 0]
    /\ heartbeats = {}
    /\ runtimeStopChans = [n \in Names |-> 0]
    /\ runtimePolls = {}
    /\ sockFile = FALSE
    /\ kernel \in {{}, {VolT}}
    /\ backend = {VolT}
    /\ masterUp = TRUE
    /\ masterGlobal = [Debug |-> FALSE]
    /\ uses = {}
    /\ peerHeld = {}
    /\ updateMountsCalls = 0
    /\ reconciled = {}
    /\ lapsed = {}
    /\ calls = [c \in Slots |-> IdleCall]
    /\ turn = NoTurn

RpcNext ==
    \/ MasterStart
    \/ MasterStop
    \/ Start
    \/ Crash
    \/ DaemonPoll
    \/ UpdateMountsBegin
    \/ UpdateMountsStep
    \/ DaemonListen
    \/ \E c \in Slots : MountAcquire(c)
    \/ \E c \in Slots : MountBarrier(c)
    \/ \E c \in Slots : MountClaim(c)
    \/ \E c \in Slots : MountDriver(c)
    \/ UnmountBetweenMounts
    \/ PeerMount
    \/ PeerUnmount
    \/ ExpireLease

RpcSpec == RpcInit /\ [][RpcNext]_vars

\* ------------------------------------------------------------------ claims

\* The master's unlocked flag of a volume name (FALSE for a name it does not know).
MasterUnlocked(name) ==
    \E v \in MasterVolumes :
        Split(name) = << v.policy, v.name >> /\ v.Unlocked

\* The master knows the volume of that name.
MasterKnows(name) ==
    \E v \in MasterVolumes : Split(name) = << v.policy, v.name >>

\* The running heartbeats of a volume.
HeartbeatsOf(name) == {h \in heartbeats : h.payload.Volume = name}

\* The plugin socket is bound by the running process.
Bound == router # Nil

\* C1: the plugin socket is bound only after a getGlobal poll set a non-nil
\* Global; while Global is nil the running agent is in the startup loop and
\* has bound nothing.
C1_BindOnlyAfterGlobal ==
    /\ pc # "down" => (Global = Nil <=> pc = "poll")
    /\ Bound => Global # Nil /\ pc = "serving" /\ sockFile
    /\ pc = "serving" => Bound

\* C1: the agent serves on the socket with the config a poll gave it.
C1_Witness == pc = "serving" /\ Bound /\ sockFile /\ Global = << masterGlobal >>

\* C2 as claimed: when Serve has returned and the process has ended, the
\* socket file is gone.
C2_SocketRemovedAfterServe ==
    (pc = "down" /\ exit \in {"serve", "clean"}) => ~sockFile

\* C3 as claimed: while a locked volume is reconciled on this host and not
\* finally unmounted, the master records one holder at most and a Mount of
\* it on the second host fails.
C3_PeerMountFailsWhileReconciled ==
    \A n \in reconciled :
        ~MasterUnlocked(n) =>
            /\ Cardinality({u \in uses : u.Volume = n}) <= 1
            /\ PeerMountFails(n)

\* C3 amended: while a locked volume is reconciled on this host, not finally
\* unmounted, and its lease has not expired at the master since, the master
\* records this host as the one holder and a Mount of it on the second host
\* fails.
C3_PeerMountFailsWhileLeased ==
    \A n \in reconciled \ lapsed :
        ~MasterUnlocked(n) =>
            /\ {u \in uses : u.Volume = n} =
                   {[Volume |-> n, Reason |-> ReasonMount, Hostname |-> Host]}
            /\ PeerMountFails(n)

\* C3: the agent serves with policy1/test reconciled and leased, the master
\* is up, and the second host's Mount of it fails.
C3_Witness ==
    /\ pc = "serving"
    /\ VolT \in reconciled \ lapsed
    /\ masterUp
    /\ PeerMountFails(VolT)

\* C4 as claimed: when updateMounts has returned, every kernel mount of a
\* volume the master knows has refcount 1 and a running heartbeat.
C4_RefcountSeeded ==
    pc = "listen" =>
        \A n \in kernel :
            MasterKnows(n) => mountCount[n] = 1 /\ HeartbeatsOf(n) # {}

\* C5 as claimed: in every quiescent state, refcount 0, no heartbeat and no
\* stop channel go together, and a positive refcount has exactly one of each.
C5_RefcountHeartbeatStopChan ==
    pc = "serving" =>
        \A n \in Names :
            /\ mountCount[n] = 0 <=> HeartbeatsOf(n) = {}
            /\ HeartbeatsOf(n) = {} <=> stopChans[n] = 0
            /\ mountCount[n] > 0 =>
                   Cardinality(HeartbeatsOf(n)) = 1 /\ stopChans[n] # 0

\* C6 as claimed: whenever the current global config has Debug off, a POST
\* to an unknown verb is not dispatched to the diagnostic handler.
C6_NoPassthroughWhenDebugOff ==
    (pc = "serving" /\ Global # Nil /\ ~Global[1].Debug) =>
        Dispatch(router[1], UnknownPath) # "action"

\* C7: Remove is dispatched to the handler of Path, which calls no Destroy,
\* and no step of the system takes a volume off the backend.
C7_RemoveNeverDestroys ==
    /\ [](Bound =>
            /\ Dispatch(router[1], "/VolumeDriver.Remove") = "getPath"
            /\ Dispatch(router[1], "/VolumeDriver.Remove")
                   = Dispatch(router[1], "/VolumeDriver.Path")
            /\ "Destroy" \notin DriverCallsOf[Dispatch(router[1], "/VolumeDriver.Remove")])
    /\ [][backend \subseteq backend']_vars

\* C7: the agent serves Remove for a volume it has created on the backend.
C7_Witness ==
    /\ pc = "serving"
    /\ VolT \in backend
    /\ Routed("/VolumeDriver.Remove", "getPath")

\* C8: updateMounts is called once per run, after Global is set and before
\* the socket is bound, and the socket is bound only when its loop is over.
C8_ReconcileOnceBeforeBind ==
    /\ pc \in {"poll", "updateMounts"} => updateMountsCalls = 0
    /\ pc \in {"refresh", "listen", "serving"} => updateMountsCalls = 1
    /\ updateMountsCalls > 0 => Global # Nil
    /\ pc \in {"poll", "updateMounts", "refresh", "listen"} => ~Bound
    /\ Bound => updateMountsCalls = 1 /\ todo = <<>>
    /\ pc = "refresh" <=> todo # <<>>

\* C8: the agent serves after a reconciliation that refreshed a mount.
C8_Witness ==
    pc = "serving" /\ updateMountsCalls = 1 /\ reconciled # {} /\ kernel # {}

\* C9: once a poll has given the agent a global config, it binds the socket
\* and accepts Activate, unless startup fails or the process is ended first.
C9_EventuallyBinds ==
    (pc \in {"poll", "updateMounts", "refresh", "listen"} /\ Global # Nil)
        ~> (pc = "down" \/ (Bound /\ Routed("/Plugin.Activate", "activate")))

\* C9: the agent is bound and dispatches Activate.
C9_Witness == Bound /\ Routed("/Plugin.Activate", "activate") /\ reconciled # {}

\* The holder a lease of that volume names when the host of that label publishes it.
ExpectedHolder(name, label) == IF MasterUnlocked(name) THEN Unlocked ELSE label

\* C10: every lease the agent publishes and heartbeats has reason "mount"
\* and names the agent's host label, or "unlocked" for an unlocked volume;
\* the master's records carry no other holder than that of a publishing host.
C10_LeaseHolder ==
    /\ \A h \in heartbeats :
          /\ h.payload.Reason = ReasonMount
          /\ h.payload.Hostname = ExpectedHolder(h.payload.Volume, Host)
    /\ \A u \in uses :
          /\ u.Reason = ReasonMount
          /\ u.Hostname \in {ExpectedHolder(u.Volume, Host), ExpectedHolder(u.Volume, PeerHost)}

\* C10: leases of an unlocked volume published by reconciliation and of a
\* locked volume published by Mount are both recorded and heartbeated.
C10_Witness ==
    /\ VolU \in reconciled
    /\ mountCount[VolT] = 1
    /\ [Volume |-> VolU, Reason |-> ReasonMount, Hostname |-> Unlocked] \in uses
    /\ [Volume |-> VolT, Reason |-> ReasonMount, Hostname |-> Host] \in uses
    /\ HeartbeatsOf(VolU) # {} /\ HeartbeatsOf(VolT) # {}

\* A Mount that took the fast path behind a first holder's Mount of the same
\* volume that was in flight, both answered.
ConcurrentPair(c, d) ==
    /\ c # d
    /\ calls[c].step = "done" /\ calls[d].step = "done"
    /\ calls[c].name = calls[d].name
    /\ calls[c].first
    /\ calls[d].waited

\* At most one first holder's Mount of a volume is in flight.
OneFirstHolder ==
    \A c \in Slots, d \in Slots :
        (c # d /\ calls[c].step \in {"claim", "driver"}
               /\ calls[d].step \in {"claim", "driver"})
            => calls[c].name # calls[d].name

C12_DriverOnlyAtBoundary ==
    [][\A n \in Names :
          /\ n \in kernel' \ kernel => mountCount[n] = 0 /\ mountCount'[n] = 1
          /\ n \in kernel \ kernel' => mountCount[n] = 1 /\ mountCount'[n] = 0]_vars

\* The lease this host claims for a volume the master knows.
HostLease(n) == MountLease(Host, n, VolumeOf(n))

\* The Mounts of a volume that wait at the barrier, each holding a reference.
Waiting(n) == Cardinality({d \in Slots : calls[d].step = "barrier" /\ calls[d].name = n})

\* The step is one in which the first holder's Mount in goroutine c fails.
MountFails(c) ==
    /\ calls[c].step \in {"claim", "driver"}
    /\ calls'[c].step = "done"
    /\ calls'[c].err # ""

\* The step leaves the heartbeats and the stop channel of the volume as they were.
NoHeartbeatAdded(n) ==
    /\ {h \in heartbeats' : h.payload.Volume = n} = HeartbeatsOf(n)
    /\ stopChans'[n] = stopChans[n]

\* What a failing Mount restores apart from the lease: the refcount it found
\* (beside the references of the Mounts waiting behind it), and neither
\* while it was in flight nor when it fails a heartbeat or stop channel more.
MountRestoresRegistry(c) ==
    LET n == calls[c].name IN
    /\ MountFails(c) => mountCount'[n] = calls[c].prior + Waiting(n)
    /\ (MountFails(c) \/ calls'[c].step \in {"claim", "driver"}) =>
           NoHeartbeatAdded(calls'[c].name)

\* C13 as claimed: a Mount that fails on the lease or in the driver leaves
\* the refcount at its value before the call, no heartbeat or stop channel
\* more, and no lease of this host at the master that was not there before.
C13_FailedMountRestores ==
    [][\A c \in Slots :
          /\ MountRestoresRegistry(c)
          /\ MountFails(c) =>
                (HostLease(calls[c].name) \in uses' => calls[c].held)]_vars

\* C13 amended: as above, but the lease this Mount claimed stays at the
\* master when the master cannot be reached for its release.
C13_FailedMountRestoresReachable ==
    [][\A c \in Slots :
          /\ MountRestoresRegistry(c)
          /\ MountFails(c) =>
                (HostLease(calls[c].name) \in uses' => calls[c].held \/ ~masterUp')]_vars

\* C13: a Mount of policy1/test has failed in the driver after its lease
\* was claimed, and refcount, lease and heartbeats are as before the call.
C13_Witness ==
    \E c \in Slots :
        /\ calls[c].step = "done" /\ calls[c].name = VolT
        /\ calls[c].err = "driver" /\ calls[c].claimed /\ ~calls[c].held
        /\ mountCount[VolT] = calls[c].prior
        /\ HostLease(VolT) \notin uses
        /\ HeartbeatsOf(VolT) = {} /\ stopChans[VolT] = 0

\* C14 as claimed: the final Unmount of a volume, which has the driver
\* unmount it and the master release its lease, leaves no heartbeat of that
\* volume running that could publish the lease again.
C14_NoHeartbeatAtRelease ==
    [][\A n \in Names :
          n \in kernel \ kernel' => {h \in heartbeats' : h.payload.Volume = n} = {}]_vars

\* updateMounts finishes a turn of its loop in this step: it goes on to the
\* next mount of the scan, or to the socket after the last.
TurnGoesOn == pc = "refresh" /\ todo # <<>> /\ todo' = Tail(todo) /\ pc' \in {"refresh", "listen"}

\* updateMounts ends the process in this step (a kill is not its doing).
TurnAborts == pc = "refresh" /\ pc' = "down" /\ exit' # "killed"

\* The turn starts nothing: no use record, heartbeat, poller or stop channel.
TurnStartsNothing ==
    /\ uses' = uses
    /\ heartbeats' = heartbeats
    /\ runtimePolls' = runtimePolls
    /\ stopChans' = stopChans
    /\ runtimeStopChans' = runtimeStopChans

\* C15 Reconciliation treats the master's lookup answers apart. For a mount
\* the master does not know (VolumeNotFound) the turn publishes no lease,
\* starts no heartbeat and no poller, and goes on with the next mount; only a
\* lookup that got no answer ends the process there. While the master is
\* unreachable a turn for a policy/name mount ends the process with the fatal
\* error, with no socket bound and no router built. A lease is published in a
\* turn only for the mount of that turn, and only when the master returned
\* its volume.
C15_LookupOutcomes ==
    [][/\ (TurnGoesOn \/ TurnAborts) /\ Len(Split(Head(todo))) = 2
          /\ masterUp /\ ~MasterKnows(Head(todo))
          => \/ exit' = "fatal"
             \/ /\ TurnGoesOn
                /\ turn'.lookup = "errVolumeNotFound"
                /\ TurnStartsNothing
       /\ (TurnGoesOn \/ TurnAborts) /\ Len(Split(Head(todo))) = 2 /\ ~masterUp
          => /\ TurnAborts
             /\ exit' = "fatal"
             /\ sockFile' = sockFile
             /\ router' = Nil
       /\ pc = "refresh"
          => \A u \in uses' \ uses :
                \/ u.Hostname = PeerHost
                \/ /\ u.Volume = Head(todo)
                   /\ turn'.lookup = "ok"
                   /\ RequestVolume(TRUE, Split(u.Volume)[1], Split(u.Volume)[2]).err = ""]_vars

\* A scan in which the unknown mount was skipped and a later mount, whose
\* volume the master returned, got its lease, heartbeat and poller.
C15_Witness ==
    /\ pc = "listen"
    /\ VolGone \in kernel
    /\ HeartbeatsOf(VolGone) = {}
    /\ runtimeStopChans[VolGone] = 0
    /\ turn.name = VolU /\ turn.lookup = "ok" /\ turn.report = "ok"
    /\ HeartbeatsOf(VolU) # {}
    /\ \E u \in uses : u.Volume = VolU

\* C16 as claimed: updateMounts asks ReportMountStatus only after a
\* ReportMount that failed because the lease exists already (a conflict),
\* never after a ReportMount that succeeded or failed for another reason.
C16_StatusOnlyOnConflict == turn.status # "none" => turn.report = "conflict"

\* C16 as the code has it: updateMounts asks ReportMountStatus only after a
\* ReportMount that returned an error, whatever the error (a conflict or a
\* request that did not get through), and never after one that succeeded;
\* with the status confirmed the turn goes on as after a successful claim.
C16_StatusOnlyOnError ==
    /\ turn.status # "none" => turn.report \in {"conflict", "unreachable"}
    /\ turn.report \in {"conflict", "unreachable"} => turn.status = "ok"
    /\ turn.report = "ok" => turn.status = "none"

\* A restarted agent found its own lease at the master: ReportMount met the
\* conflict, ReportMountStatus confirmed the lease and the heartbeat runs.
C16_Witness ==
    /\ turn.report = "conflict"
    /\ turn.status = "ok"
    /\ HeartbeatsOf(turn.name) # {}
    /\ \E u \in uses : u.Volume = turn.name /\ u.Hostname \in {Host, Unlocked}

\* C17 as claimed: a turn of updateMounts' loop for a mount whose name is not
\* policy/name with both parts non-empty and no further '/' (no '/', more
\* than one '/', an empty policy or an empty name) makes no lookup at the
\* master, starts no lease, heartbeat or poller, and goes on with the scan.
C17_MalformedNamesSkipped ==
    [][LET parts == Split(Head(todo))
           wellFormed == Len(parts) = 2 /\ parts[1] # <<>> /\ parts[2] # <<>>
       IN  (TurnGoesOn \/ TurnAborts) /\ ~wellFormed
           => /\ TurnGoesOn
              /\ turn'.lookup = "none"
              /\ TurnStartsNothing]_vars

\* C18 Reconciliation changes nothing on the host or the backend: from the
\* call of updateMounts to its return no step mounts, unmounts, creates,
\* formats or destroys a volume, so the host's kernel mounts and the
\* backend's volumes are after reconciliation what they were before it.
C18_ReconcileLeavesMounts ==
    [][(pc = "updateMounts" \/ pc = "refresh") => (kernel' = kernel /\ backend' = backend)]_vars

\* Reconciliation has finished over a host with mounts: every mount of the
\* scan is still mounted, the refreshed one among them, and the backend
\* holds its volume.
C18_Witness ==
    /\ pc = "listen"
    /\ updateMountsCalls = 1
    /\ kernel = Foreign \cup {VolU}
    /\ VolU \in reconciled
    /\ backend = {VolU}

\* C19 dc.Global changes only as a whole. A step of the running process
\* leaves it as it was or replaces it by the complete config the master
\* holds; a poll that fails (no answer, or a body that cannot be read or
\* decoded) leaves it as it was; and from the exit of the startup loop on,
\* whatever the watcher does beside the request handlers, it is never nil,
\* so every read finds the previous or the new complete config.
C19_GlobalReplacedWhole ==
    [][/\ (pc' # "down" /\ pc # "down")
          => \/ Global' = Global
             \/ Global' = << masterGlobal >> /\ masterUp
       /\ \A resp \in {"garbled", "refused"} :
             GetGlobal(Global, resp, masterGlobal) = Global
       /\ (pc' \in {"updateMounts", "refresh", "listen", "serving"})
          => Global' # Nil /\ Global'[1] \in GlobalConfigs]_vars

\* The watcher has replaced the config beside the serving handlers: it once
\* read Debug set, the config now in place has it cleared, and with the
\* master gone its polls fail and leave that config in place.
C19_Witness ==
    /\ pc = "serving"
    /\ Bound
    /\ logDebug
    /\ Global = << [Debug |-> FALSE] >>
    /\ ~masterUp

\* C20 In reconciliation a heartbeat or a runtime poller is started only in
\* the turn of its mount and only with the lease published: ReportMount
\* succeeded, or it failed and ReportMountStatus succeeded, and the master
\* records the heartbeat's payload. A turn in which both calls are bound to
\* fail (another holder has the lease) ends the process with that error; and
\* whenever updateMounts ends the process no heartbeat or poller is left or
\* started, for that mount or a later one, and no socket is bound.
C20_HeartbeatAfterLease ==
    [][/\ (pc = "refresh")
          => /\ \A h \in heartbeats' \ heartbeats :
                   /\ h.payload.Volume = Head(todo)
                   /\ turn'.report = "ok" \/ (turn'.report # "ok" /\ turn'.status = "ok")
                   /\ h.payload \in uses'
             /\ \A r \in runtimePolls' \ runtimePolls :
                   /\ r.vol = Head(todo)
                   /\ turn'.report = "ok" \/ turn'.status = "ok"
                   /\ \E u \in uses' : u.Volume = r.vol /\ u.Hostname \in {Host, Unlocked}
       /\ ((TurnGoesOn \/ TurnAborts) /\ masterUp /\ MasterKnows(Head(todo))
             /\ \E u \in uses : u.Volume = Head(todo) /\ u.Hostname = PeerHost)
          => TurnAborts /\ exit' \in {"lease", "fatal"}
       /\ TurnAborts
          => /\ heartbeats' = {} /\ runtimePolls' = {}
             /\ router' = Nil /\ sockFile' = sockFile]_vars

\* updateMounts found the lease of a surviving mount with the other host:
\* both calls failed, Daemon returned the error, nothing runs, nothing is bound.
C20_Witness ==
    /\ pc = "down"
    /\ exit = "lease"
    /\ VolT \in kernel
    /\ \E u \in uses : u.Volume = VolT /\ u.Hostname = PeerHost
    /\ heartbeats = {}
    /\ ~Bound
====
